---- MODULE Spec2Model ----
(***************************************************************************)
(* Model of devinterp/zoo/tms/data.py: SyntheticDataset and its two        *)
(* variants SyntheticUniformValued and SyntheticBinaryValued.              *)
(*                                                                         *)
(* Tensors of shape (ns, nf) are functions [0..ns-1 -> [0..nf-1 -> Nat]].  *)
(* Floats are fixed-point in halves: the number v stands for v / 2, so 1.0 *)
(* is 2, and torch.rand's range [0, 1) is abstracted to {0.0, 0.5}.        *)
(* A float sparsity is one of -0.5, 0.0, 0.5, 1.0, 1.5.                    *)
(***************************************************************************)
EXTENDS Integers, Sequences, FiniteSets, TLC

\* ---- bounds -------------------------------------------------------------
MaxSamples == 2
MaxFeatures == 2

VARIABLES pc, cls, num_samples, num_features, sparsity,
          mask, values, data, exc, ret

vars == <<pc, cls, num_samples, num_features, sparsity,
          mask, values, data, exc, ret>>

\* ---- helpers ------------------------------------------------------------
Min(a, b) == IF a < b THEN a ELSE b
Max(a, b) == IF a > b THEN a ELSE b

\* an attribute or local that holds no tensor
NoTensor == <<>>

\* the float 1.0 in fixed point
One == 2

\* the values torch.rand can return: 0.0 and one value strictly inside (0, 1)
RandValues == {0, One - 1}

Classes == {"SyntheticDataset", "SyntheticUniformValued", "SyntheticBinaryValued"}

\* the runtime values a caller can pass as sparsity: floats inside and
\* outside [0, 1], integers inside and outside [0, num_features], the two
\* booleans (val 1 for True, 0 for False), a string and None
Sparsities ==
    [type : {"float"}, val : -1 .. (One + 1)]
    \cup [type : {"int"}, val : -(MaxFeatures + 1) .. (MaxFeatures + 1)]
    \cup [type : {"bool"}, val : {0, 1}]
    \cup [type : {"str", "NoneType"}, val : {0}]

NoSparsity == [type |-> "unset", val |-> 0]

Tensors(ns, nf, S) == [0 .. ns - 1 -> [0 .. nf - 1 -> S]]

\* isinstance(x, float): bool and int are not floats
IsInstanceFloat(sp) == sp.type = "float"

\* isinstance(x, int): bool is a subclass of int
IsInstanceInt(sp) == sp.type \in {"int", "bool"}

\* ---- torch primitives ---------------------------------------------------
\* one Bernoulli draw with success probability q (fixed point)
BernoulliDraw(q) ==
    IF q = 0 THEN {0} ELSE IF q = One THEN {One} ELSE {0, One}

\* torch.bernoulli(torch.ones((ns, nf)) * q): independent per entry
bernoulli(ns, nf, q) == Tensors(ns, nf, BernoulliDraw(q))

\* torch.randperm(n): every permutation of 0..n-1, as a sequence
randpermWithReplacement(n) == [1 .. n -> 0 .. n - 1]
randperm(n) ==
    {p \in [1 .. n -> 0 .. n - 1] : \A i, j \in 1 .. n : p[i] = p[j] => i = j}

\* Python's s[:k]
PySliceClampNegative(s, k) == SubSeq(s, 1, Min(Max(k, 0), Len(s)))
PySlice(s, k) ==
    SubSeq(s, 1, IF k < 0 THEN Max(Len(s) + k, 0) ELSE Min(k, Len(s)))

Range(s) == {s[i] : i \in DOMAIN s}

\* mask = zeros((ns, nf)); mask[:, indices] = 1
IndexFillFirstRowOnly(ns, nf, indices) ==
    [r \in 0 .. ns - 1 |->
        [c \in 0 .. nf - 1 |-> IF r = 0 /\ c \in Range(indices) THEN One ELSE 0]]
IndexFill(ns, nf, indices) ==
    [r \in 0 .. ns - 1 |->
        [c \in 0 .. nf - 1 |-> IF c \in Range(indices) THEN One ELSE 0]]

\* ---- SyntheticDataset ---------------------------------------------------
\* generate_mask: the set of outcomes [exc, t]
generate_maskFloatOnly(ns, nf, sp) ==
    IF IsInstanceFloat(sp)
    THEN IF One - sp.val < 0 \/ One - sp.val > One
         THEN {[exc |-> "RuntimeError", t |-> NoTensor]}
         ELSE {[exc |-> "none", t |-> m] :
                  m \in bernoulli(ns, nf, One - sp.val)}
    ELSE {[exc |-> "ValueError", t |-> NoTensor]}
generate_maskProbSwapped(ns, nf, sp) ==
    IF IsInstanceFloat(sp)
    THEN IF sp.val < 0 \/ sp.val > One
         THEN {[exc |-> "RuntimeError", t |-> NoTensor]}
         ELSE {[exc |-> "none", t |-> m] : m \in bernoulli(ns, nf, sp.val)}
    ELSE IF IsInstanceInt(sp)
    THEN {[exc |-> "none", t |-> IndexFill(ns, nf, PySlice(p, sp.val))] :
             p \in randperm(nf)}
    ELSE {[exc |-> "ValueError", t |-> NoTensor]}
generate_mask(ns, nf, sp) ==
    IF IsInstanceFloat(sp)
    THEN IF One - sp.val < 0 \/ One - sp.val > One
         THEN {[exc |-> "RuntimeError", t |-> NoTensor]}
         ELSE {[exc |-> "none", t |-> m] :
                  m \in bernoulli(ns, nf, One - sp.val)}
    ELSE IF IsInstanceInt(sp)
    THEN {[exc |-> "none", t |-> IndexFill(ns, nf, PySlice(p, sp.val))] :
             p \in randperm(nf)}
    ELSE {[exc |-> "ValueError", t |-> NoTensor]}

\* a generate_values result: a python scalar or a tensor
Scalar(x) == [scalar |-> TRUE, s |-> x, t |-> NoTensor]
Tensor(m) == [scalar |-> FALSE, s |-> 0, t |-> m]
NoValues == Scalar(0)

\* generate_values of the three classes: the set of outcomes [exc, v]
generate_valuesBinaryHalf(c, ns, nf) ==
    IF c = "SyntheticUniformValued"
    THEN {[exc |-> "none", v |-> Tensor(m)] :
             m \in Tensors(ns, nf, RandValues)}
    ELSE IF c = "SyntheticBinaryValued"
    THEN {[exc |-> "none", v |-> Scalar(One - 1)]}
    ELSE {[exc |-> "NotImplementedError", v |-> NoValues]}
generate_values(c, ns, nf) ==
    IF c = "SyntheticUniformValued"
    THEN {[exc |-> "none", v |-> Tensor(m)] :
             m \in Tensors(ns, nf, RandValues)}
    ELSE IF c = "SyntheticBinaryValued"
    THEN {[exc |-> "none", v |-> Scalar(One)]}
    ELSE {[exc |-> "NotImplementedError", v |-> NoValues]}

\* entry (r, c) of v broadcast against a 2-D tensor
At(v, r, c) == IF v.scalar THEN v.s ELSE v.t[r][c]

\* mask * values, elementwise with broadcasting (fixed-point product; exact
\* because every mask entry is 0.0 or 1.0)
MulIgnoreMask(m, v) ==
    [r \in DOMAIN m |-> [c \in DOMAIN m[r] |-> At(v, r, c)]]
Mul(m, v) ==
    [r \in DOMAIN m |->
        [c \in DOMAIN m[r] |-> (m[r][c] * At(v, r, c)) \div One]]

\* the generate_values step of generate_data: generate_mask() is evaluated
\* first, and generate_values() is not reached when it raised
NotCalled == [exc |-> "not called", v |-> NoValues]
ValuesStep(mo, c, ns, nf) ==
    IF mo.exc = "none" THEN generate_values(c, ns, nf) ELSE {NotCalled}

\* generate_data: the outcome [exc, mask, values, data] of
\* self.generate_mask() * self.generate_values() for a mask outcome mo and
\* a values outcome vo
generate_data(mo, vo) ==
    IF mo.exc # "none"
    THEN [exc |-> mo.exc, mask |-> NoTensor, values |-> NoValues,
          data |-> NoTensor]
    ELSE IF vo.exc # "none"
    THEN [exc |-> vo.exc, mask |-> mo.t, values |-> NoValues,
          data |-> NoTensor]
    ELSE [exc |-> "none", mask |-> mo.t, values |-> vo.v,
          data |-> Mul(mo.t, vo.v)]

NoRet == [op |-> "none", idx |-> 0, n |-> 0, row |-> NoTensor]

Init ==
    /\ pc = "new"
    /\ cls = "none"
    /\ num_samples = 0
    /\ num_features = 0
    /\ sparsity = NoSparsity
    /\ mask = NoTensor
    /\ values = NoValues
    /\ data = NoTensor
    /\ exc = "none"
    /\ ret = NoRet

\* what self.data is bound to when __init__ ends with outcome o
InitDataLeaky(o) == IF o.exc = "none" THEN o.data ELSE o.mask
InitData(o) == IF o.exc = "none" THEN o.data ELSE NoTensor

\* __init__: assigns the three attributes, then self.data = generate_data()
SyntheticDataset_init ==
    /\ pc = "new"
    /\ \E c \in Classes, ns \in 1 .. MaxSamples, nf \in 1 .. MaxFeatures,
          sp \in Sparsities :
         \E mo \in generate_mask(ns, nf, sp) :
         \E vo \in ValuesStep(mo, c, ns, nf) :
         LET o == generate_data(mo, vo) IN
            /\ cls' = c
            /\ num_samples' = ns
            /\ num_features' = nf
            /\ sparsity' = sp
            /\ mask' = o.mask
            /\ values' = o.values
            /\ data' = InitData(o)
            /\ exc' = o.exc
            /\ pc' = IF o.exc = "none" THEN "ready" ELSE "raised"
    /\ UNCHANGED ret

\* __len__
lenOfFeatures(ns, nf) == nf
len(ns, nf) == ns

SyntheticDataset_len ==
    /\ pc = "ready"
    /\ ret' = [op |-> "len", idx |-> 0, n |-> len(num_samples, num_features),
               row |-> NoTensor]
    /\ exc' = "none"
    /\ UNCHANGED <<pc, cls, num_samples, num_features, sparsity,
                   mask, values, data>>

\* number of rows of a 2-D tensor
Rows(d) == Cardinality(DOMAIN d)

\* self.data[idx] for an integer idx: the outcome [exc, row]
getitemNoWrap(d, idx) ==
    IF 0 <= idx /\ idx < Rows(d)
    THEN [exc |-> "none", row |-> d[idx]]
    ELSE [exc |-> "IndexError", row |-> NoTensor]
getitem(d, idx) ==
    IF 0 <= idx /\ idx < Rows(d)
    THEN [exc |-> "none", row |-> d[idx]]
    ELSE IF -Rows(d) <= idx /\ idx < 0
    THEN [exc |-> "none", row |-> d[Rows(d) + idx]]
    ELSE [exc |-> "IndexError", row |-> NoTensor]

\* the integer indices tried: the first row, the last row through a negative
\* index, and the first index beyond the range on either side (with ns = 1
\* these are both ends of [-ns, ns) and their neighbours)
IndexInputs(ns) == {-(ns + 1), -1, 0, ns}

\* __getitem__
SyntheticDataset_getitem ==
    /\ pc = "ready"
    /\ \E idx \in IndexInputs(num_samples) :
         LET o == getitem(data, idx) IN
            /\ ret' = [op |-> "getitem", idx |-> idx, n |-> 0, row |-> o.row]
            /\ exc' = o.exc
    /\ UNCHANGED <<pc, cls, num_samples, num_features, sparsity,
                   mask, values, data>>

Next ==
    \/ SyntheticDataset_init
    \/ SyntheticDataset_len
    \/ SyntheticDataset_getitem

Spec == Init /\ [][Next]_vars

\* ---- generate_mask on its own -------------------------------------------
\* the attributes generate_mask reads are drawn, then the method is applied
InitMask ==
    /\ pc = "args"
    /\ cls = "none"
    /\ num_samples \in 1 .. MaxSamples
    /\ num_features \in 1 .. MaxFeatures
    /\ sparsity \in Sparsities
    /\ mask = NoTensor
    /\ values = NoValues
    /\ data = NoTensor
    /\ exc = "none"
    /\ ret = NoRet

SyntheticDataset_generate_mask ==
    /\ pc = "args"
    /\ \E mo \in generate_mask(num_samples, num_features, sparsity) :
          /\ mask' = mo.t
          /\ exc' = mo.exc
    /\ pc' = "masked"
    /\ UNCHANGED <<cls, num_samples, num_features, sparsity, values, data, ret>>

NextMask == SyntheticDataset_generate_mask

SpecMask == InitMask /\ [][NextMask]_vars

\* ---- properties ---------------------------------------------------------
Cols == 0 .. num_features - 1
RowIdx == 0 .. num_samples - 1

\* the columns of a row that hold a non-zero entry
Support(row) == {c \in DOMAIN row : row[c] # 0}

HasShape(t) ==
    /\ DOMAIN t = RowIdx
    /\ \A r \in RowIdx : DOMAIN t[r] = Cols

\* sparsity is an int (not a bool) within [0, num_features]
IntInRange ==
    /\ sparsity.type = "int"
    /\ 0 <= sparsity.val
    /\ sparsity.val <= num_features

\* C1: with an integer sparsity k, 0 <= k <= num_features, every row of the
\* mask has exactly k ones and zeros elsewhere, on one set of columns shared
\* by all rows; k = 0 gives the all-zero mask, k = num_features all ones.
C1_IntMaskExactSharedSupport ==
    (IntInRange /\ mask # NoTensor) =>
        /\ HasShape(mask)
        /\ \A r \in RowIdx :
              /\ \A c \in Cols : mask[r][c] \in {0, One}
              /\ Cardinality(Support(mask[r])) = sparsity.val
              /\ Support(mask[r]) = Support(mask[0])
        /\ (sparsity.val = 0 => \A r \in RowIdx : \A c \in Cols : mask[r][c] = 0)
        /\ (sparsity.val = num_features =>
               \A r \in RowIdx : \A c \in Cols : mask[r][c] = One)

C1_Witness ==
    /\ IntInRange
    /\ num_samples = MaxSamples
    /\ num_features >= 2
    /\ sparsity.val = 1
    /\ mask # NoTensor
    /\ \A r \in RowIdx : Support(mask[r]) = {1}

\* C2 (as stated): an indexed access returns row idx when
\* 0 <= idx < num_samples and raises IndexError for every other index,
\* negative ones included.
C2_Original ==
    (ret.op = "getitem") =>
        IF 0 <= ret.idx /\ ret.idx < num_samples
        THEN exc = "none" /\ ret.row = data[ret.idx]
        ELSE exc = "IndexError"

\* C2 (amended): an indexed access returns row idx when
\* 0 <= idx < num_samples, row num_samples + idx when
\* -num_samples <= idx < 0, and raises IndexError for every other integer.
C2_GetItemWraps ==
    (ret.op = "getitem") =>
        IF 0 <= ret.idx /\ ret.idx < num_samples
        THEN exc = "none" /\ ret.row = data[ret.idx]
        ELSE IF -num_samples <= ret.idx /\ ret.idx < 0
        THEN exc = "none" /\ ret.row = data[num_samples + ret.idx]
        ELSE exc = "IndexError" /\ ret.row = NoTensor

C2_Witness ==
    /\ ret.op = "getitem"
    /\ ret.idx = -1
    /\ num_samples = 2
    /\ exc = "none"
    /\ ret.row = data[1]
    /\ data[1] # data[0]

\* C3: construction raises ValueError exactly when the runtime type of
\* sparsity is neither float nor int; with a float or an int it never does.
C3_ValueErrorIffUnsupportedType ==
    (pc # "new") =>
        /\ (~IsInstanceFloat(sparsity) /\ ~IsInstanceInt(sparsity))
              => (pc = "raised" /\ exc = "ValueError")
        /\ (IsInstanceFloat(sparsity) \/ IsInstanceInt(sparsity))
              => ~(pc = "raised" /\ exc = "ValueError")

C3_Witness ==
    /\ pc = "raised"
    /\ exc = "ValueError"
    /\ sparsity.type = "str"
    /\ cls = "SyntheticUniformValued"

\* C4: when the constructor raises, data has not been assigned; when it
\* returns, data is a tensor of shape (num_samples, num_features).
C4_NoPartialFailure ==
    /\ (pc = "raised" =>
           /\ data = NoTensor
           /\ exc \in {"ValueError", "NotImplementedError", "RuntimeError"})
    /\ (pc = "ready" => data # NoTensor /\ HasShape(data))

C4_Witness ==
    /\ pc = "raised"
    /\ exc = "NotImplementedError"
    /\ mask # NoTensor
    /\ data = NoTensor

\* C5: the stored data is mask * values of the construction-time mask and
\* values, no operation changes it, and an access to index i,
\* 0 <= i < num_samples, returns mask[i] * values[i], of length num_features.
C5_DataIsProductAndFixed ==
    /\ [](pc = "ready" =>
            /\ \A r \in RowIdx : \A c \in Cols :
                  data[r][c] * One = mask[r][c] * At(values, r, c)
            /\ (ret.op = "getitem" /\ 0 <= ret.idx /\ ret.idx < num_samples) =>
                  /\ DOMAIN ret.row = Cols
                  /\ \A c \in Cols :
                        ret.row[c] * One
                            = mask[ret.idx][c] * At(values, ret.idx, c))
    /\ [][pc = "ready" =>
            (data' = data /\ mask' = mask /\ values' = values)]_vars

C5_Witness ==
    /\ pc = "ready"
    /\ cls = "SyntheticUniformValued"
    /\ ret.op = "getitem"
    /\ ret.idx = 0
    /\ num_samples = 2
    /\ num_features >= 2
    /\ mask[0][0] = One /\ mask[0][1] = 0
    /\ mask[1][0] = 0 /\ mask[1][1] = One
    /\ values.t[0][0] # 0 /\ values.t[0][1] # 0
    /\ ret.row[0] = values.t[0][0] /\ ret.row[1] = 0

\* C6 (as stated): with an integer sparsity k, 0 <= k <= num_features, every
\* row of the data of either variant has exactly k non-zero entries, at the
\* same k columns in every row.
C6_Original ==
    (pc = "ready" /\ IntInRange) =>
        \A r \in RowIdx :
            /\ Cardinality(Support(data[r])) = sparsity.val
            /\ Support(data[r]) = Support(data[0])

\* C6 (amended): with an integer sparsity k, 0 <= k <= num_features, there
\* is one set of k columns that holds the non-zero entries of every row of
\* the data; a row has exactly these k non-zero entries in the binary-valued
\* variant, and in the uniform-valued variant whenever none of the values
\* drawn for the row at these columns is 0.0 (torch.rand draws from [0, 1)).
C6_SupportWithinSharedColumns ==
    (pc = "ready" /\ IntInRange) =>
        \E S \in SUBSET Cols :
            /\ Cardinality(S) = sparsity.val
            /\ \A r \in RowIdx :
                  /\ Support(data[r]) \subseteq S
                  /\ (\A c \in S : At(values, r, c) # 0)
                        => Support(data[r]) = S
            /\ cls = "SyntheticBinaryValued"
                  => \A r \in RowIdx : Support(data[r]) = S

C6_Witness ==
    /\ pc = "ready"
    /\ IntInRange
    /\ cls = "SyntheticUniformValued"
    /\ sparsity.val = 2
    /\ num_samples = 2
    /\ Support(data[0]) = {0, 1}
    /\ Support(data[1]) = {0, 1}

\* C7: in the binary-valued variant every entry of the data is 0 or exactly
\* 1, the data equals the mask entry for entry, and it has shape
\* (num_samples, num_features) although generate_values returned a scalar.
C7_BinaryDataEqualsMask ==
    (pc = "ready" /\ cls = "SyntheticBinaryValued") =>
        /\ values.scalar
        /\ HasShape(data)
        /\ \A r \in RowIdx : \A c \in Cols :
              /\ data[r][c] \in {0, One}
              /\ data[r][c] = mask[r][c]

C7_Witness ==
    /\ pc = "ready"
    /\ cls = "SyntheticBinaryValued"
    /\ sparsity.type = "float"
    /\ num_samples = 2
    /\ num_features = 2
    /\ data[0][0] = One /\ data[0][1] = 0
    /\ data[1][0] = 0 /\ data[1][1] = One

\* C8: after construction the length operation returns the num_samples given
\* to the constructor, which is the number of rows of the stored data.
C8_LenIsNumSamples ==
    /\ (pc = "ready" =>
           /\ len(num_samples, num_features) = Rows(data)
           /\ num_samples \in 1 .. MaxSamples)
    /\ (ret.op = "len" => ret.n = num_samples /\ ret.n = Rows(data))

C8_Witness ==
    /\ ret.op = "len"
    /\ ret.n = 2
    /\ num_samples = 2
    /\ num_features = 1
    /\ Rows(data) = 2

\* the masks generate_mask can return for the constructed dataset
PossibleMasks ==
    {o.t : o \in {x \in generate_mask(num_samples, num_features, sparsity) :
                     x.exc = "none"}}

\* C9: under the float policy every mask entry is 0 or 1; for
\* 0.0 < sparsity < 1.0 every 0/1 matrix of the shape is a possible mask,
\* sparsity 0.0 gives only the all-ones mask, sparsity 1.0 only all zeros.
C9_FloatMaskBernoulli ==
    (pc = "masked" /\ sparsity.type = "float" /\ exc = "none") =>
        /\ HasShape(mask)
        /\ \A r \in RowIdx : \A c \in Cols : mask[r][c] \in {0, One}
        /\ mask \in PossibleMasks
        /\ (0 < sparsity.val /\ sparsity.val < One)
              => PossibleMasks = Tensors(num_samples, num_features, {0, One})
        /\ sparsity.val = 0
              => (/\ \A r \in RowIdx : \A c \in Cols : mask[r][c] = One
                  /\ Cardinality(PossibleMasks) = 1)
        /\ sparsity.val = One
              => (/\ \A r \in RowIdx : \A c \in Cols : mask[r][c] = 0
                  /\ Cardinality(PossibleMasks) = 1)

C9_Witness ==
    /\ pc = "masked"
    /\ sparsity.type = "float"
    /\ 0 < sparsity.val /\ sparsity.val < One
    /\ mask # NoTensor
    /\ num_samples = 2
    /\ num_features = 2
    /\ Support(mask[0]) = {0}
    /\ Support(mask[1]) = {0, 1}

\* C10: an integer sparsity k outside [0, num_features] is not rejected:
\* both variants construct, and every mask row has min(k, num_features) ones
\* when k > num_features and max(num_features + k, 0) ones when k < 0, on
\* one support shared by all rows; a bool goes through the integer branch
\* as 1 (True) or 0 (False).
C10_IntRangeNotValidated ==
    /\ (pc # "new" /\ sparsity.type = "int"
            /\ (sparsity.val < 0 \/ sparsity.val > num_features)) =>
          /\ (cls # "SyntheticDataset" => pc = "ready")
          /\ exc # "ValueError"
          /\ mask # NoTensor
          /\ \A r \in RowIdx :
                /\ Support(mask[r]) = Support(mask[0])
                /\ \A c \in Cols : mask[r][c] \in {0, One}
                /\ sparsity.val > num_features =>
                      Cardinality(Support(mask[r]))
                          = Min(sparsity.val, num_features)
                /\ sparsity.val < 0 =>
                      Cardinality(Support(mask[r]))
                          = Max(num_features + sparsity.val, 0)
    /\ (pc # "new" /\ sparsity.type = "bool") =>
          /\ (cls # "SyntheticDataset" => pc = "ready")
          /\ mask # NoTensor
          /\ \A r \in RowIdx :
                /\ Support(mask[r]) = Support(mask[0])
                /\ Cardinality(Support(mask[r])) = sparsity.val

C10_Witness ==
    /\ pc = "ready"
    /\ sparsity.type = "int"
    /\ sparsity.val = -1
    /\ num_features = 2
    /\ num_samples = 2
    /\ Cardinality(Support(mask[0])) = 1
    /\ Support(mask[1]) = Support(mask[0])

====
